---- MODULE Spec2Model ----
(***************************************************************************)
(* Minihub source-control core: branches, live file snapshots, the commit  *)
(* ledger and the issue-number allocator, as implemented by the mongoose   *)
(* models and the express routes of the server.                            *)
(*                                                                         *)
(* Documents of a collection are records kept in a set; `id` is the        *)
(* insertion rank of the document (its _id), 0 stands for null.            *)
(* Model.findOne without a sort returns the first match in natural         *)
(* (insertion) order, i.e. the match with the least id.                    *)
(* The pre('save') hooks are modelled as written in the models: they run   *)
(* as part of save() and their effect is visible to the unique indexes.    *)
(***************************************************************************)
EXTENDS Integers, Sequences, FiniteSets, TLC

\* ---------------------------------------------------------------- bounds
MaxFiles == 3      \* File documents ever created
MaxCommits == 4    \* Commit documents ever created
MaxBranches == 3   \* Branch documents ever created
MaxIssues == 3     \* Issue documents ever created
MaxStepFiles == 3  \* File documents, when requests run one await at a time
MaxStepCommits == 3 \* Commit documents, when requests run one await at a time

\* ---------------------------------------------------------------- inputs
ProjectIds == {"p1"}
BranchNames == {"main", "feature"}
\* req.params[0] split on '/'
FilePaths == {<<"README.md">>, <<"src", "a.js">>}
\* file bodies, as the list of their lines (content.split('\n'))
Contents == {<<"hello", "world">>, <<"hello", "world", "more">>}
ReadmeContent == <<"hello", "world">>
MoreContent == <<"hello", "world", "more">>
\* values sha1(...).digest('hex').substring(0, 7) can take
HashSeq == << <<"a","b","c","1","2","3","4">>,
             <<"a","b","c","1","2","3","5">>,
             <<"f","0","0","d","9","9","9">>,
             <<"0","1","2","3","4","5","6">>,
             <<"7","e","5","7","a","a","0">>,
             <<"d","e","a","d","b","e","e">> >>
Hashes == {HashSeq[i] : i \in 1..Len(HashSeq)}
\* :commitHash values a client can send
HashPatterns == { <<"a","b","c","1","2","3","4">>,
                  <<"A","B","C","1","2","3","5">>,
                  <<"a","b","c","1","2","3",".">>,
                  <<"a","b","c","1","2","3","4","5">>,
                  <<"a","b","c","1","2","3">> }
Requests == {"r1", "r2"}

Null == 0

VARIABLES
  projects,    \* project id -> "none" | "live" | "deleted"
  branches,    \* Branch collection
  branchSeq,   \* number of Branch documents ever inserted
  files,       \* File collection
  commits,     \* Commit collection
  pendingClear,\* updateMany calls started by Branch pre('save') and not yet applied
  now,         \* clock read by the timestamps
  scen,        \* progress of the write, write, delete sequence being observed
  issues,      \* Issue collection
  issueSeq,    \* number of Issue documents ever inserted
  ipc,         \* position of each create-issue request
  inum,        \* number each create-issue request obtained
  allocated,   \* numbers getNextIssueNumber has returned so far, per project
  req          \* PUT / DELETE file requests in progress: position and local variables

vars == <<projects, branches, branchSeq, files, commits, pendingClear, now, scen,
          issues, issueSeq, ipc, inum, allocated, req>>
coreVars == <<projects, branches, branchSeq, files, commits, pendingClear, now, scen>>
issueVars == <<issues, issueSeq, ipc, inum, allocated>>

\* ====================================================================
\* helpers
\* ====================================================================
\* Model.findOne(filter): first matching document in natural order
NoDoc == [id |-> Null]
Found(d) == d.id # Null
FindOne(S) == IF S = {} THEN NoDoc ELSE CHOOSE d \in S : \A e \in S : d.id <= e.id

\* document.save() of an existing document: the stored document with that _id is replaced
Store(S, d) == {e \in S : e.id # d.id} \cup {d}

\* const pathParts = filePath.split('/'); fileName = pathParts.pop(); dirPath = ...
ParsePath(fp) == [name |-> fp[Len(fp)], path |-> SubSeq(fp, 1, Len(fp) - 1)]

\* ====================================================================
\* models/File.js
\* ====================================================================
\* new File({...}) with the schema defaults
NewFile(F, p, b, dir, name, content, type) ==
  [id |-> Cardinality(F) + 1, project |-> p, branch |-> b, path |-> dir, name |-> name,
   content |-> content, type |-> type, isDeleted |-> FALSE, lastCommit |-> Null]

\* fileSchema.virtual('fullPath')
fullPath(f) == IF f.path = <<>> THEN <<f.name>> ELSE f.path \o <<f.name>>

\* File.find({project, branch, isDeleted: false})
LiveFiles(F, p, b) == {f \in F : f.project = p /\ f.branch = b /\ ~f.isDeleted}

\* the lookup of PUT and DELETE with the branch left out of the filter
FindLiveFileAnyBranch(F, p, b, fp) ==
  FindOne({f \in F : /\ f.project = p /\ ~f.isDeleted
                     /\ f.name = ParsePath(fp).name /\ f.path = ParsePath(fp).path})

\* the lookup of PUT and DELETE with isDeleted left out of the filter
FindFileWithDeleted(F, p, b, fp) ==
  FindOne({f \in F : /\ f.project = p /\ f.branch = b
                     /\ f.name = ParsePath(fp).name /\ f.path = ParsePath(fp).path})

\* File.findOne({project, name, path, branch, isDeleted: false}) of PUT and DELETE
FindLiveFile(F, p, b, fp) ==
  FindOne({f \in LiveFiles(F, p, b) :
             f.name = ParsePath(fp).name /\ f.path = ParsePath(fp).path})

\* the lookup of GET /content with isDeleted left out of the filter
GetContentWithDeleted(F, p, b, fp) ==
  FindOne({f \in F : /\ f.project = p /\ f.branch = b
                     /\ f.name = ParsePath(fp).name /\ f.path = ParsePath(fp).path
                     /\ f.type = "file"})

\* GET /content: File.findOne({..., type: 'file', isDeleted: false})
GetContent(F, p, b, fp) ==
  FindOne({f \in LiveFiles(F, p, b) :
             /\ f.name = ParsePath(fp).name /\ f.path = ParsePath(fp).path
             /\ f.type = "file"})

\* GET /tree: File.find({project, branch, path, isDeleted: false})
GetTree(F, p, b, dir) == {f \in LiveFiles(F, p, b) : f.path = dir}

\* order of the type values under the string comparison of the sort
TypeOrder(t) == IF t = "directory" THEN 1 ELSE 2

\* the names used, ascending under the string comparison of the sort
NameSeq == <<"README.md", "a.js", "docs", "lib", "src">>
NameOrder(n) == CHOOSE i \in 1..Len(NameSeq) : NameSeq[i] = n

\* .sort({ type: -1, name: 1 }): f is listed before g
TreeBefore(f, g) ==
  \/ TypeOrder(f.type) > TypeOrder(g.type)
  \/ f.type = g.type /\ NameOrder(f.name) < NameOrder(g.name)
  \/ f.type = g.type /\ f.name = g.name /\ f.id < g.id

RECURSIVE SortTree(_)
SortTree(S) ==
  IF S = {} THEN <<>>
  ELSE LET first == CHOOSE f \in S : \A g \in S \ {f} : TreeBefore(f, g)
       IN <<first>> \o SortTree(S \ {first})

\* GET /tree: File.find({project, branch, path, isDeleted: false}).sort({type: -1, name: 1})
ListTree(F, p, b, dir) == SortTree(GetTree(F, p, b, dir))

\* ====================================================================
\* models/Commit.js
\* ====================================================================
\* commitSchema.methods.calculateStats
calculateStats(changes) ==
  [filesChanged |-> Len(changes),
   totalLinesAdded |-> IF Len(changes) = 0 THEN 0 ELSE changes[1].linesAdded,
   totalLinesDeleted |-> IF Len(changes) = 0 THEN 0 ELSE changes[1].linesDeleted]

\* new Commit({...}) after pre('save'): hash generated, stats computed
NewCommit(C, p, b, h, message, changes, t) ==
  [id |-> Cardinality(C) + 1, project |-> p, hash |-> h, message |-> message,
   branch |-> b, changes |-> changes, stats |-> calculateStats(changes), createdAt |-> t]

\* a ledger without the unique index on hash
HashNeverTaken(C, h) == FALSE

\* unique index on hash: the insert is rejected when the hash is already stored
HashTaken(C, h) == \E c \in C : c.hash = h

\* Commit.find({project, branch})
BranchCommits(C, p, b) == {c \in C : c.project = p /\ c.branch = b}

\* GET /commits/:projectId : find({project, branch}).sort({createdAt: -1})
RECURSIVE SortDesc(_)
SortDesc(S) ==
  IF S = {} THEN <<>>
  ELSE LET m == CHOOSE c \in S : \A d \in S : c.createdAt >= d.createdAt
       IN <<m>> \o SortDesc(S \ {m})
History(C, p, b) == SortDesc(BranchCommits(C, p, b))

\* ====================================================================
\* models/Branch.js
\* ====================================================================
\* updateStats that counts the commits of every branch of the project
updateStatsAnyBranch(br, C) ==
  LET mine == {c \in C : c.project = br.project}
      lastCommit == IF mine = {} THEN NoDoc
                    ELSE CHOOSE c \in mine : \A d \in mine : c.createdAt >= d.createdAt
  IN IF ~Found(lastCommit)
     THEN [br EXCEPT !.totalCommits = Cardinality(mine)]
     ELSE [br EXCEPT !.totalCommits = Cardinality(mine),
                     !.lastActivity = lastCommit.createdAt,
                     !.lastCommit = lastCommit.id]

\* branchSchema.methods.updateStats
updateStats(br, C) ==
  LET mine == BranchCommits(C, br.project, br.name)
      lastCommit == IF mine = {} THEN NoDoc
                    ELSE CHOOSE c \in mine : \A d \in mine : c.createdAt >= d.createdAt
  IN IF ~Found(lastCommit)
     THEN [br EXCEPT !.totalCommits = Cardinality(mine)]
     ELSE [br EXCEPT !.totalCommits = Cardinality(mine),
                     !.lastActivity = lastCommit.createdAt,
                     !.lastCommit = lastCommit.id]

\* branchSchema.methods.calculateDifference
calculateDifference(br, targetBranch, C) ==
  LET thisCommits == BranchCommits(C, br.project, br.name)
      targetCommits == BranchCommits(C, br.project, targetBranch)
      thisHashes == {c.hash : c \in thisCommits}
      targetHashes == {c.hash : c \in targetCommits}
  IN [br EXCEPT
        !.commitsAhead = Cardinality({c \in thisCommits : c.hash \notin targetHashes}),
        !.commitsBehind = Cardinality({c \in targetCommits : c.hash \notin thisHashes})]

\* new Branch({...}) with the schema defaults
NewBranch(id, p, name, isDefault, isProtected, parent, t) ==
  [id |-> id, project |-> p, name |-> name, isDefault |-> isDefault,
   isProtected |-> isProtected, parentBranch |-> parent, lastCommit |-> Null,
   totalCommits |-> 0, commitsAhead |-> 0, commitsBehind |-> 0,
   lastActivity |-> t, createdAt |-> t]

\* branchSchema.pre('save'): the updateMany is started and not awaited
PreSaveClear(br, isModifiedDefault) ==
  IF br.isDefault /\ isModifiedDefault
  THEN {[project |-> br.project, except |-> br.id]} ELSE {}

\* Branch.findOne({project, name})
FindBranch(B, p, name) == FindOne({b \in B : b.project = p /\ b.name = name})

\* ====================================================================
\* routes/projects.js
\* ====================================================================
\* POST /api/projects
CreateProject(p, h) ==
  /\ projects[p] = "none"
  /\ LET mainBranch == NewBranch(branchSeq + 1, p, "main", TRUE, TRUE, Null, now)
         readmeFile == NewFile(files, p, "main", <<>>, "README.md", ReadmeContent, "file")
         initialCommit ==
           NewCommit(commits, p, "main", h, "Initial commit",
                     <<[file |-> readmeFile.id, action |-> "added",
                        filePath |-> <<"README.md">>,
                        linesAdded |-> Len(ReadmeContent), linesDeleted |-> 0]>>, now)
     IN /\ projects' = [projects EXCEPT ![p] = "live"]
        /\ branchSeq' = branchSeq + 1
        /\ pendingClear' = pendingClear \cup PreSaveClear(mainBranch, TRUE)
        /\ IF HashTaken(commits, h)
           THEN \* initialCommit.save() rejects: the catch block answers 500
                /\ branches' = branches \cup {mainBranch}
                /\ files' = files \cup {readmeFile}
                /\ commits' = commits
                /\ now' = now
           ELSE /\ commits' = commits \cup {initialCommit}
                /\ now' = now + 1
                /\ files' = files \cup {[readmeFile EXCEPT !.lastCommit = initialCommit.id]}
                /\ branches' = branches \cup {updateStats(mainBranch, commits')}

\* the updateMany({project, _id: {$ne: this._id}}, {isDefault: false}) reaches the store
ApplyUpdateMany(u) ==
  /\ u \in pendingClear
  /\ pendingClear' = pendingClear \ {u}
  /\ branches' = {IF b.project = u.project /\ b.id # u.except
                  THEN [b EXCEPT !.isDefault = FALSE] ELSE b : b \in branches}
  /\ UNCHANGED <<projects, branchSeq, files, commits, now>>

\* branch.isDefault = true; await branch.save() on a stored branch: the pre('save') hook
\* starts the updateMany and calls next() at once, so the updateMany reaches the store
\* before the save completes (inTime) or some time after it
SaveAsDefault(p, name, inTime) ==
  /\ Found(FindBranch(branches, p, name))
  /\ ~FindBranch(branches, p, name).isDefault
  /\ LET branch == [FindBranch(branches, p, name) EXCEPT !.isDefault = TRUE]
     IN IF inTime
        THEN /\ branches' = {IF b.project = p /\ b.id # branch.id
                              THEN [b EXCEPT !.isDefault = FALSE] ELSE b
                              : b \in Store(branches, branch)}
             /\ pendingClear' = pendingClear
        ELSE /\ branches' = Store(branches, branch)
             /\ pendingClear' = pendingClear \cup PreSaveClear(branch, TRUE)
  /\ UNCHANGED <<projects, branchSeq, files, commits, now>>

\* DELETE /api/projects/:id
DeleteProject(p) ==
  /\ projects[p] = "live"
  /\ projects' = [projects EXCEPT ![p] = "deleted"]
  /\ UNCHANGED <<branches, branchSeq, files, commits, pendingClear, now>>

\* the copies POST /:id/branches makes of the live files of the source branch
RECURSIVE CopyFiles(_, _, _)
CopyFiles(F, sourceFiles, name) ==
  IF sourceFiles = {} THEN F
  ELSE LET sourceFile == FindOne(sourceFiles)
           newFile == NewFile(F, sourceFile.project, name, sourceFile.path,
                              sourceFile.name, sourceFile.content, sourceFile.type)
       IN CopyFiles(F \cup {newFile}, sourceFiles \ {sourceFile}, name)

\* POST /:id/branches without the check that the source branch exists
CreateBranchStatusNoSourceCheck(p, name, source) ==
  IF projects[p] # "live" THEN 404
  ELSE IF Found(FindBranch(branches, p, name)) THEN 400
  ELSE 201

\* response status of POST /api/projects/:id/branches
CreateBranchStatus(p, name, source) ==
  IF projects[p] # "live" THEN 404
  ELSE IF Found(FindBranch(branches, p, name)) THEN 400
  ELSE IF ~Found(FindBranch(branches, p, source)) THEN 404
  ELSE 201

\* POST /api/projects/:id/branches
CreateBranch(p, name, source) ==
  /\ IF CreateBranchStatus(p, name, source) # 201
     THEN UNCHANGED <<branches, branchSeq, files, now, pendingClear>>
     ELSE LET sourceBranch == FindBranch(branches, p, source)
              branch == NewBranch(branchSeq + 1, p, name, FALSE, FALSE, sourceBranch.id, now)
              sourceFiles == LiveFiles(files, p, source)
          IN /\ branchSeq < MaxBranches
             /\ Cardinality(files) + Cardinality(sourceFiles) <= MaxFiles
             /\ branchSeq' = branchSeq + 1
             /\ pendingClear' = pendingClear \cup PreSaveClear(branch, FALSE)
             /\ files' = CopyFiles(files, sourceFiles, name)
             /\ branches' = branches \cup {updateStats(branch, commits)}
             /\ now' = now
  /\ UNCHANGED <<projects, commits>>

\* response status of PATCH and of DELETE /api/projects/:id/branches/:branchName
UpdateBranchStatus(p, name) ==
  IF projects[p] # "live" \/ ~Found(FindBranch(branches, p, name)) THEN 404 ELSE 200

\* DELETE of a branch without the default-branch guard
DeleteBranchStatusNoDefaultGuard(p, name) ==
  IF projects[p] # "live" \/ ~Found(FindBranch(branches, p, name)) THEN 404
  ELSE IF FindBranch(branches, p, name).isProtected THEN 400
  ELSE 200

\* DELETE of a branch without the protected-branch guard
DeleteBranchStatusNoProtectedGuard(p, name) ==
  IF projects[p] # "live" \/ ~Found(FindBranch(branches, p, name)) THEN 404
  ELSE IF FindBranch(branches, p, name).isDefault THEN 400
  ELSE 200

DeleteBranchStatus(p, name) ==
  IF projects[p] # "live" \/ ~Found(FindBranch(branches, p, name)) THEN 404
  ELSE IF FindBranch(branches, p, name).isDefault THEN 400
  ELSE IF FindBranch(branches, p, name).isProtected THEN 400
  ELSE 200

\* PATCH /api/projects/:id/branches/:branchName
UpdateBranch(p, name, isProtected) ==
  /\ LET branch == FindBranch(branches, p, name)
     IN IF UpdateBranchStatus(p, name) # 200
        THEN UNCHANGED <<branches, pendingClear>>
        ELSE /\ branches' = Store(branches, [branch EXCEPT !.isProtected = isProtected])
             /\ pendingClear' = pendingClear \cup PreSaveClear(branch, FALSE)
  /\ UNCHANGED <<projects, branchSeq, files, commits, now>>

\* DELETE of a branch that also soft-deletes the File records of the branch
DeleteBranchWithFiles(p, name) ==
  /\ IF DeleteBranchStatus(p, name) # 200
     THEN UNCHANGED <<branches, files>>
     ELSE /\ branches' = branches \ {FindBranch(branches, p, name)}
          /\ files' = {IF f.project = p /\ f.branch = name
                       THEN [f EXCEPT !.isDeleted = TRUE] ELSE f : f \in files}
  /\ UNCHANGED <<projects, branchSeq, commits, pendingClear, now>>

\* DELETE of a branch that also drops the commits recorded under its name
DeleteBranchWithCommits(p, name) ==
  /\ IF DeleteBranchStatus(p, name) # 200
     THEN UNCHANGED <<branches, commits>>
     ELSE /\ branches' = branches \ {FindBranch(branches, p, name)}
          /\ commits' = {c \in commits : ~(c.project = p /\ c.branch = name)}
  /\ UNCHANGED <<projects, branchSeq, files, pendingClear, now>>

\* DELETE /api/projects/:id/branches/:branchName
DeleteBranch(p, name) ==
  /\ IF DeleteBranchStatus(p, name) # 200
     THEN UNCHANGED branches
     ELSE branches' = branches \ {FindBranch(branches, p, name)}
  /\ UNCHANGED <<projects, branchSeq, files, commits, pendingClear, now>>

\* ====================================================================
\* routes/files.js
\* ====================================================================
\* every change of a PUT recorded as an addition
changeActionAdded(isNewFile) == "added"

\* action: isNewFile ? 'added' : 'modified'
changeAction(isNewFile) == IF isNewFile THEN "added" ELSE "modified"

\* response status of PUT /api/files/content/:projectId/*
PutFileStatus(p, h) ==
  IF projects[p] # "live" THEN 404 ELSE IF HashTaken(commits, h) THEN 500 ELSE 200

\* PUT /api/files/content/:projectId/*
PutFile(p, b, fp, content, h) ==
  /\ IF PutFileStatus(p, h) = 404
     THEN UNCHANGED <<files, commits, now>>
     ELSE LET found == FindLiveFile(files, p, b, fp)
              isNewFile == ~Found(found)
              oldContent == IF isNewFile THEN <<>> ELSE found.content
              file == IF isNewFile
                      THEN NewFile(files, p, b, ParsePath(fp).path, ParsePath(fp).name,
                                   content, "file")
                      ELSE [found EXCEPT !.content = content]
              commit ==
                NewCommit(commits, p, b, h, "update",
                          <<[file |-> file.id,
                             action |-> changeAction(isNewFile),
                             filePath |-> fullPath(file),
                             linesAdded |-> IF isNewFile THEN Len(content) ELSE 0,
                             linesDeleted |-> IF isNewFile THEN 0 ELSE Len(oldContent)]>>,
                          now)
          IN /\ isNewFile => Cardinality(files) < MaxFiles
             /\ Cardinality(commits) < MaxCommits
             /\ IF PutFileStatus(p, h) = 500
                THEN \* commit.save() rejects after file.save(): the catch block answers 500
                     /\ files' = Store(files, file)
                     /\ UNCHANGED <<commits, now>>
                ELSE /\ commits' = commits \cup {commit}
                     /\ files' = Store(files, [file EXCEPT !.lastCommit = commit.id])
                     /\ now' = now + 1
  /\ UNCHANGED <<projects, branches, branchSeq, pendingClear>>

\* response status of DELETE /api/files/content/:projectId/*
DeleteFileStatus(p, b, fp, h) ==
  IF projects[p] # "live" \/ ~Found(FindLiveFile(files, p, b, fp)) THEN 404
  ELSE IF HashTaken(commits, h) THEN 500 ELSE 200

\* DELETE /api/files/content/:projectId/*
DeleteFile(p, b, fp, h) ==
  /\ IF DeleteFileStatus(p, b, fp, h) = 404
     THEN UNCHANGED <<files, commits, now>>
     ELSE LET file == [FindLiveFile(files, p, b, fp) EXCEPT !.isDeleted = TRUE]
              commit ==
                NewCommit(commits, p, b, h, "delete",
                          <<[file |-> file.id, action |-> "deleted",
                             filePath |-> fullPath(file), linesAdded |-> 0,
                             linesDeleted |-> Len(file.content)]>>, now)
          IN /\ Cardinality(commits) < MaxCommits
             /\ files' = Store(files, file)
             /\ IF DeleteFileStatus(p, b, fp, h) = 500
                THEN UNCHANGED <<commits, now>>
                ELSE /\ commits' = commits \cup {commit}
                     /\ now' = now + 1
  /\ UNCHANGED <<projects, branches, branchSeq, pendingClear>>

\* ====================================================================
\* routes/files.js, one await at a time
\* ====================================================================
\* a request that is not running
IdleRequest ==
  [pc |-> "idle", kind |-> "", project |-> "", branch |-> "", fp |-> <<>>,
   content |-> <<>>, oldContent |-> <<>>, isNewFile |-> FALSE,
   file |-> Null, commit |-> Null]

StepInit == req = [r \in Requests |-> IdleRequest]

\* the order of the awaits with the commit saved before the file
NextPcCommitFirst(kind, pc) ==
  CASE pc = "idle" -> "commit"
    [] pc = "commit" -> "file"
    [] pc = "file" -> (IF kind = "put" THEN "link" ELSE "idle")
    [] OTHER -> "idle"

\* the order of the awaits: findOne, file.save(), commit.save(), and for PUT the
\* second file.save() that sets lastCommit
NextPc(kind, pc) ==
  CASE pc = "idle" -> "file"
    [] pc = "file" -> "commit"
    [] pc = "commit" -> (IF kind = "put" THEN "link" ELSE "idle")
    [] OTHER -> "idle"

\* requests past their findOne that will still insert a File, resp. a Commit
PendingFiles == {r \in Requests : req[r].pc = "file" /\ req[r].isNewFile}
PendingCommits == {r \in Requests : req[r].pc \in {"file", "commit"}}

\* the request moves on to its next await, or answers after its last one
Advance(r, q) ==
  IF NextPc(q.kind, q.pc) = "idle" THEN IdleRequest
  ELSE [q EXCEPT !.pc = NextPc(q.kind, q.pc)]

\* PUT: Project.findById and File.findOne
PutFind(r, p, b, fp, content) ==
  /\ req[r].pc = "idle"
  /\ IF projects[p] # "live"
     THEN req' = [req EXCEPT ![r] = IdleRequest]
     ELSE LET found == FindLiveFile(files, p, b, fp)
              q == [pc |-> "idle", kind |-> "put", project |-> p, branch |-> b, fp |-> fp,
                    content |-> content,
                    oldContent |-> IF Found(found) THEN found.content ELSE <<>>,
                    isNewFile |-> ~Found(found), file |-> found.id,
                    commit |-> Null]
          IN /\ ~Found(found)
                  => Cardinality(files) + Cardinality(PendingFiles) < MaxStepFiles
             /\ Cardinality(commits) + Cardinality(PendingCommits) < MaxStepCommits
             /\ req' = [req EXCEPT ![r] = Advance(r, q)]
  /\ UNCHANGED <<projects, branches, branchSeq, files, commits, pendingClear, now>>

\* DELETE: Project.findById and File.findOne
DeleteFind(r, p, b, fp) ==
  /\ req[r].pc = "idle"
  /\ IF projects[p] # "live" \/ ~Found(FindLiveFile(files, p, b, fp))
     THEN req' = [req EXCEPT ![r] = IdleRequest]
     ELSE LET found == FindLiveFile(files, p, b, fp)
              q == [pc |-> "idle", kind |-> "delete", project |-> p, branch |-> b,
                    fp |-> fp, content |-> found.content, oldContent |-> found.content,
                    isNewFile |-> FALSE, file |-> found.id,
                    commit |-> Null]
          IN /\ Cardinality(commits) + Cardinality(PendingCommits) < MaxStepCommits
             /\ req' = [req EXCEPT ![r] = Advance(r, q)]
  /\ UNCHANGED <<projects, branches, branchSeq, files, commits, pendingClear, now>>

\* file.save() that stores every saved document as a new record
SaveFileInsertAlways(r) ==
  /\ req[r].pc = "file"
  /\ LET q == req[r]
         newFile == NewFile(files, q.project, q.branch, ParsePath(q.fp).path,
                            ParsePath(q.fp).name, q.content, "file")
     IN /\ files' = files \cup {newFile}
        /\ req' = [req EXCEPT ![r] = Advance(r, [q EXCEPT !.file = newFile.id])]
  /\ UNCHANGED <<projects, branches, branchSeq, commits, pendingClear, now>>

\* await file.save(): an insert for a new File, otherwise an update of the modified field
SaveFile(r) ==
  /\ req[r].pc = "file"
  /\ LET q == req[r]
         newFile == NewFile(files, q.project, q.branch, ParsePath(q.fp).path,
                            ParsePath(q.fp).name, q.content, "file")
     IN IF q.kind = "put" /\ q.isNewFile
        THEN /\ files' = files \cup {newFile}
             /\ req' = [req EXCEPT ![r] = Advance(r, [q EXCEPT !.file = newFile.id])]
        ELSE /\ files' = {IF f.id # q.file THEN f
                          ELSE IF q.kind = "put" THEN [f EXCEPT !.content = q.content]
                          ELSE [f EXCEPT !.isDeleted = TRUE] : f \in files}
             /\ req' = [req EXCEPT ![r] = Advance(r, q)]
  /\ UNCHANGED <<projects, branches, branchSeq, commits, pendingClear, now>>

\* answer of a request whose commit.save() is decided with digest h: the catch block
\* answers 500 when the save is rejected
SaveCommitStatus(r, h) == IF HashTaken(commits, h) THEN 500 ELSE 200

\* await commit.save(): rejected by the unique index when the digest is already stored
SaveCommit(r, h) ==
  /\ req[r].pc = "commit"
  /\ LET q == req[r]
         change == IF q.kind = "put"
                   THEN [file |-> q.file, action |-> changeAction(q.isNewFile),
                         filePath |-> q.fp,
                         linesAdded |-> IF q.isNewFile THEN Len(q.content) ELSE 0,
                         linesDeleted |-> IF q.isNewFile THEN 0 ELSE Len(q.oldContent)]
                   ELSE [file |-> q.file, action |-> "deleted", filePath |-> q.fp,
                         linesAdded |-> 0, linesDeleted |-> Len(q.content)]
         commit == NewCommit(commits, q.project, q.branch, h,
                             IF q.kind = "put" THEN "update" ELSE "delete",
                             <<change>>, now)
     IN IF HashTaken(commits, h)
        THEN /\ req' = [req EXCEPT ![r] = IdleRequest]
             /\ UNCHANGED <<commits, now>>
        ELSE /\ commits' = commits \cup {commit}
             /\ now' = now + 1
             /\ req' = [req EXCEPT ![r] = Advance(r, [q EXCEPT !.commit = commit.id])]
  /\ UNCHANGED <<projects, branches, branchSeq, files, pendingClear>>

\* PUT: file.lastCommit = commit._id; await file.save()
LinkCommit(r) ==
  /\ req[r].pc = "link"
  /\ files' = {IF f.id = req[r].file THEN [f EXCEPT !.lastCommit = req[r].commit] ELSE f
               : f \in files}
  /\ req' = [req EXCEPT ![r] = Advance(r, req[r])]
  /\ UNCHANGED <<projects, branches, branchSeq, commits, pendingClear, now>>

\* ====================================================================
\* routes/commits.js
\* ====================================================================
MinHashLen == 7
MaxHashLen == 40

\* the 'i' option of the regex, on the characters used
Lower(ch) == CASE ch = "A" -> "a" [] ch = "B" -> "b" [] ch = "C" -> "c"
               [] ch = "D" -> "d" [] ch = "E" -> "e" [] ch = "F" -> "f"
               [] OTHER -> ch

\* hash: { $regex: `^${commitHash}`, $options: 'i' }
RegexMatch(hash, pat) ==
  /\ Len(pat) <= Len(hash)
  /\ \A i \in 1..Len(pat) : pat[i] = "." \/ Lower(pat[i]) = Lower(hash[i])

\* GET /api/commits/:projectId/:commitHash : response status and commit
GetCommit(p, commitHash) ==
  IF Len(commitHash) < MinHashLen \/ Len(commitHash) > MaxHashLen
  THEN [status |-> 400, commit |-> NoDoc]
  ELSE IF projects[p] # "live" THEN [status |-> 404, commit |-> NoDoc]
  ELSE LET commit == FindOne({c \in commits :
                                c.project = p /\ RegexMatch(c.hash, commitHash)})
       IN IF ~Found(commit) THEN [status |-> 404, commit |-> NoDoc]
          ELSE [status |-> 200, commit |-> commit]

\* .sort({createdAt: 1})
RECURSIVE SortAsc(_)
SortAsc(S) ==
  IF S = {} THEN <<>>
  ELSE LET m == CHOOSE c \in S : \A d \in S : c.createdAt <= d.createdAt
       IN <<m>> \o SortAsc(S \ {m})

\* GET /:projectId/compare/:baseHash...:headHash : response status and commits
Compare(p, baseHash, headHash) ==
  IF \/ Len(baseHash) < MinHashLen \/ Len(baseHash) > MaxHashLen
     \/ Len(headHash) < MinHashLen \/ Len(headHash) > MaxHashLen
  THEN [status |-> 400, commits |-> <<>>]
  ELSE IF projects[p] # "live" THEN [status |-> 404, commits |-> <<>>]
  ELSE LET baseCommit == FindOne({c \in commits :
                                    c.project = p /\ RegexMatch(c.hash, baseHash)})
           headCommit == FindOne({c \in commits :
                                    c.project = p /\ RegexMatch(c.hash, headHash)})
       IN IF ~Found(baseCommit) \/ ~Found(headCommit)
          THEN [status |-> 404, commits |-> <<>>]
          ELSE [status |-> 200,
                commits |-> SortAsc({c \in commits :
                                       /\ c.project = p
                                       /\ c.createdAt > baseCommit.createdAt
                                       /\ c.createdAt <= headCommit.createdAt})]

\* ====================================================================
\* models/Issue.js, routes/issues.js
\* ====================================================================
\* getNextIssueNumber(projectId) / issueSchema.statics.getNextNumber
getNextIssueNumber(I, p) ==
  LET mine == {i \in I : i.project = p}
      lastIssue == IF mine = {} THEN NoDoc
                   ELSE CHOOSE i \in mine : \A j \in mine : i.number >= j.number
  IN IF Found(lastIssue) THEN lastIssue.number + 1 ELSE 1

\* unique index {project, number}
NumberTaken(I, p, n) == \E i \in I : i.project = p /\ i.number = n

\* POST /:projectId/issues up to `number: await getNextIssueNumber(projectId)`
AllocateIssueNumber(r, p) ==
  /\ ipc[r] = "idle"
  /\ projects[p] = "live"
  /\ issueSeq < MaxIssues
  /\ inum' = [inum EXCEPT ![r] = [project |-> p, number |-> getNextIssueNumber(issues, p)]]
  /\ allocated' = [allocated EXCEPT ![p] = @ \cup {getNextIssueNumber(issues, p)}]
  /\ ipc' = [ipc EXCEPT ![r] = "save"]
  /\ UNCHANGED <<issues, issueSeq>>

\* POST /:projectId/issues from `await issue.save()`
SaveIssue(r) ==
  /\ ipc[r] = "save"
  /\ ipc' = [ipc EXCEPT ![r] = "idle"]
  /\ IF NumberTaken(issues, inum[r].project, inum[r].number)
     THEN UNCHANGED <<issues, issueSeq>>
     ELSE /\ issues' = issues \cup {[id |-> issueSeq + 1, project |-> inum[r].project,
                                     number |-> inum[r].number]}
          /\ issueSeq' = issueSeq + 1
  /\ UNCHANGED <<inum, allocated>>

\* DELETE /:projectId/issues/:issueId
DeleteIssue(i) ==
  /\ i \in issues
  /\ issues' = issues \ {i}
  /\ UNCHANGED <<issueSeq, ipc, inum, allocated>>

\* ====================================================================
\* specifications
\* ====================================================================
NoScen == [stage |-> 0, project |-> "", branch |-> "", fp |-> <<>>, base |-> 0]

CoreInit ==
  /\ projects = [p \in ProjectIds |-> "none"]
  /\ branches = {}
  /\ branchSeq = 0
  /\ files = {}
  /\ commits = {}
  /\ pendingClear = {}
  /\ now = 1
  /\ scen = NoScen

IssueInit ==
  /\ issues = {}
  /\ issueSeq = 0
  /\ ipc = [r \in Requests |-> "idle"]
  /\ inum = [r \in Requests |-> [project |-> "", number |-> 0]]
  /\ allocated = [p \in ProjectIds |-> {}]

Init == CoreInit /\ IssueInit /\ StepInit

\* a digest value no stored commit has yet
FreshHash == HashSeq[Cardinality(commits) + 1]

\* the branch manager with the file store: sequential requests, no digest collision
Next ==
  \/ \E p \in ProjectIds : CreateProject(p, FreshHash) /\ UNCHANGED <<scen, issueVars, req>>
  \/ \E u \in pendingClear : ApplyUpdateMany(u) /\ UNCHANGED <<scen, issueVars, req>>
  \/ \E p \in ProjectIds, name \in BranchNames, source \in BranchNames :
        CreateBranch(p, name, source) /\ UNCHANGED <<scen, issueVars, req>>
  \/ \E p \in ProjectIds, name \in BranchNames, isProtected \in BOOLEAN :
        UpdateBranch(p, name, isProtected) /\ UNCHANGED <<scen, issueVars, req>>
  \/ \E p \in ProjectIds, name \in BranchNames :
        DeleteBranch(p, name) /\ UNCHANGED <<scen, issueVars, req>>
  \/ \E p \in ProjectIds, b \in BranchNames, fp \in FilePaths :
        PutFile(p, b, fp, MoreContent, FreshHash) /\ UNCHANGED <<scen, issueVars, req>>
  \/ \E p \in ProjectIds, b \in BranchNames, fp \in FilePaths :
        DeleteFile(p, b, fp, FreshHash) /\ UNCHANGED <<scen, issueVars, req>>

Spec == Init /\ [][Next]_vars


\* the commit ledger of one branch up to the deletion of the project: digests that may
\* collide with a stored one
LedgerHashes == {HashSeq[1], FreshHash}

LedgerNext ==
  \/ \E p \in ProjectIds, h \in LedgerHashes :
        CreateProject(p, h) /\ UNCHANGED <<scen, issueVars, req>>
  \/ \E p \in ProjectIds, fp \in FilePaths, h \in LedgerHashes :
        PutFile(p, "main", fp, MoreContent, h) /\ UNCHANGED <<scen, issueVars, req>>
  \/ \E p \in ProjectIds, fp \in FilePaths, h \in LedgerHashes :
        DeleteFile(p, "main", fp, h) /\ UNCHANGED <<scen, issueVars, req>>
  \/ \E p \in ProjectIds : DeleteProject(p) /\ UNCHANGED <<scen, issueVars, req>>

SpecLedger == Init /\ [][LedgerNext]_vars

\* the file store written and read back: any content, with the write, write, delete
\* sequence observed in scen
LiveAt(F, p, b, fp) ==
  \E f \in F : f.project = p /\ f.branch = b /\ ~f.isDeleted /\ fullPath(f) = fp

ScenAfterPut(p, b, fp, status) ==
  IF status # 200 THEN NoScen
  ELSE IF scen.stage = 1 /\ scen.project = p /\ scen.branch = b /\ scen.fp = fp
  THEN [scen EXCEPT !.stage = 2]
  ELSE IF ~LiveAt(files, p, b, fp)
  THEN [stage |-> 1, project |-> p, branch |-> b, fp |-> fp,
        base |-> Cardinality({c \in commits : c.project = p /\ c.branch = b})]
  ELSE NoScen

ScenAfterDelete(p, b, fp, status) ==
  IF status = 200 /\ scen.stage = 2 /\ scen.project = p /\ scen.branch = b /\ scen.fp = fp
  THEN [scen EXCEPT !.stage = 3]
  ELSE NoScen

SeqNext ==
  \/ \E p \in ProjectIds :
        CreateProject(p, FreshHash) /\ scen' = NoScen /\ UNCHANGED <<issueVars, req>>
  \/ \E p \in ProjectIds, name \in BranchNames, source \in BranchNames :
        CreateBranch(p, name, source) /\ scen' = NoScen /\ UNCHANGED <<issueVars, req>>
  \/ \E p \in ProjectIds, b \in BranchNames, fp \in FilePaths, c \in Contents :
        /\ PutFile(p, b, fp, c, FreshHash)
        /\ scen' = ScenAfterPut(p, b, fp, PutFileStatus(p, FreshHash))
        /\ UNCHANGED <<issueVars, req>>
  \/ \E p \in ProjectIds, b \in BranchNames, fp \in FilePaths :
        /\ DeleteFile(p, b, fp, FreshHash)
        /\ scen' = ScenAfterDelete(p, b, fp, DeleteFileStatus(p, b, fp, FreshHash))
        /\ UNCHANGED <<issueVars, req>>

SpecSeq == Init /\ [][SeqNext]_vars

\* the branch manager over a store with one path: every branch route, writes and deletes
\* of README.md on either branch
BranchNext ==
  \/ \E p \in ProjectIds : CreateProject(p, FreshHash) /\ UNCHANGED <<scen, issueVars, req>>
  \/ \E u \in pendingClear : ApplyUpdateMany(u) /\ UNCHANGED <<scen, issueVars, req>>
  \/ \E p \in ProjectIds, name \in BranchNames, source \in BranchNames :
        CreateBranch(p, name, source) /\ UNCHANGED <<scen, issueVars, req>>
  \/ \E p \in ProjectIds, name \in BranchNames, isProtected \in BOOLEAN :
        UpdateBranch(p, name, isProtected) /\ UNCHANGED <<scen, issueVars, req>>
  \/ \E p \in ProjectIds, name \in BranchNames :
        DeleteBranch(p, name) /\ UNCHANGED <<scen, issueVars, req>>
  \/ \E p \in ProjectIds, b \in BranchNames :
        PutFile(p, b, <<"README.md">>, MoreContent, FreshHash) /\ UNCHANGED <<scen, issueVars, req>>
  \/ \E p \in ProjectIds, b \in BranchNames :
        DeleteFile(p, b, <<"README.md">>, FreshHash) /\ UNCHANGED <<scen, issueVars, req>>

SpecBranches == Init /\ [][BranchNext]_vars

\* the default flag: the branch routes and saves of a stored branch with isDefault newly
\* set, the case the pre('save') hook of the Branch model handles
DefaultNext ==
  \/ \E p \in ProjectIds : CreateProject(p, FreshHash) /\ UNCHANGED <<scen, issueVars, req>>
  \/ \E u \in pendingClear : ApplyUpdateMany(u) /\ UNCHANGED <<scen, issueVars, req>>
  \/ \E p \in ProjectIds, name \in BranchNames, source \in BranchNames :
        CreateBranch(p, name, source) /\ UNCHANGED <<scen, issueVars, req>>
  \/ \E p \in ProjectIds, name \in BranchNames, isProtected \in BOOLEAN :
        UpdateBranch(p, name, isProtected) /\ UNCHANGED <<scen, issueVars, req>>
  \/ \E p \in ProjectIds, name \in BranchNames :
        DeleteBranch(p, name) /\ UNCHANGED <<scen, issueVars, req>>
  \/ \E p \in ProjectIds, name \in BranchNames, inTime \in BOOLEAN :
        SaveAsDefault(p, name, inTime) /\ UNCHANGED <<scen, issueVars, req>>

SpecDefault == Init /\ [][DefaultNext]_vars

\* the tree listing over stores that hold directory records: the store of a created project
\* with any of these directory records in it, then written and deleted files on main
DirectorySeeds == { [path |-> <<>>, name |-> "src"],
                    [path |-> <<>>, name |-> "docs"],
                    [path |-> <<"src">>, name |-> "lib"] }
TreeDirs == {<<>>, <<"src">>}

RECURSIVE SeedDirectories(_, _, _)
SeedDirectories(F, seeds, p) ==
  IF seeds = {} THEN F
  ELSE LET d == CHOOSE x \in seeds : \A y \in seeds : NameOrder(x.name) <= NameOrder(y.name)
       IN SeedDirectories(F \cup {NewFile(F, p, "main", d.path, d.name, <<>>, "directory")},
                          seeds \ {d}, p)

TreeInit ==
  /\ IssueInit
  /\ StepInit
  /\ scen = NoScen
  /\ pendingClear = {}
  /\ branchSeq = 1
  /\ now = 2
  /\ \E p \in ProjectIds, seeds \in SUBSET DirectorySeeds :
       LET readmeFile == NewFile({}, p, "main", <<>>, "README.md", ReadmeContent, "file")
           initialCommit ==
             NewCommit({}, p, "main", HashSeq[1], "Initial commit",
                       <<[file |-> readmeFile.id, action |-> "added",
                          filePath |-> <<"README.md">>,
                          linesAdded |-> Len(ReadmeContent), linesDeleted |-> 0]>>, 1)
       IN /\ projects = [q \in ProjectIds |-> IF q = p THEN "live" ELSE "none"]
          /\ commits = {initialCommit}
          /\ files = SeedDirectories({[readmeFile EXCEPT !.lastCommit = initialCommit.id]},
                                     seeds, p)
          /\ branches = {updateStats(NewBranch(1, p, "main", TRUE, TRUE, Null, 1), commits)}

TreeNext ==
  \/ \E p \in ProjectIds, fp \in FilePaths, c \in Contents :
        PutFile(p, "main", fp, c, FreshHash) /\ UNCHANGED <<scen, issueVars, req>>
  \/ \E p \in ProjectIds, fp \in FilePaths :
        DeleteFile(p, "main", fp, FreshHash) /\ UNCHANGED <<scen, issueVars, req>>

SpecTree == TreeInit /\ [][TreeNext]_vars

\* writes and deletes on main one await at a time, two requests at once, with digests
\* that may collide with a stored one
StepNext ==
  \/ \E p \in ProjectIds : CreateProject(p, FreshHash) /\ UNCHANGED <<scen, issueVars, req>>
  \/ \E r \in Requests, p \in ProjectIds, fp \in FilePaths :
        PutFind(r, p, "main", fp, MoreContent) /\ UNCHANGED <<scen, issueVars>>
  \/ \E r \in Requests, p \in ProjectIds, fp \in FilePaths :
        DeleteFind(r, p, "main", fp) /\ UNCHANGED <<scen, issueVars>>
  \/ \E r \in Requests : SaveFile(r) /\ UNCHANGED <<scen, issueVars>>
  \/ \E r \in Requests, h \in LedgerHashes : SaveCommit(r, h) /\ UNCHANGED <<scen, issueVars>>
  \/ \E r \in Requests : LinkCommit(r) /\ UNCHANGED <<scen, issueVars>>

SpecSteps == Init /\ [][StepNext]_vars

\* two writes of README.md on main racing one await at a time, any content, no digest
\* collision
RaceNext ==
  \/ \E p \in ProjectIds : CreateProject(p, FreshHash) /\ UNCHANGED <<scen, issueVars, req>>
  \/ \E r \in Requests, p \in ProjectIds, c \in Contents :
        PutFind(r, p, "main", <<"README.md">>, c) /\ UNCHANGED <<scen, issueVars>>
  \/ \E r \in Requests : SaveFile(r) /\ UNCHANGED <<scen, issueVars>>
  \/ \E r \in Requests : SaveCommit(r, FreshHash) /\ UNCHANGED <<scen, issueVars>>
  \/ \E r \in Requests : LinkCommit(r) /\ UNCHANGED <<scen, issueVars>>

SpecRace == Init /\ [][RaceNext]_vars

\* issue numbering: two create-issue requests whose steps interleave
IssueNext ==
  \/ \E p \in ProjectIds : CreateProject(p, FreshHash) /\ UNCHANGED <<scen, issueVars, req>>
  \/ \E r \in Requests, p \in ProjectIds : AllocateIssueNumber(r, p) /\ UNCHANGED <<coreVars, req>>
  \/ \E r \in Requests : SaveIssue(r) /\ UNCHANGED <<coreVars, req>>
  \/ \E i \in issues : DeleteIssue(i) /\ UNCHANGED <<coreVars, req>>

SpecIssues == Init /\ [][IssueNext]_vars

\* ====================================================================
\* properties
\* ====================================================================
ProjectBranches(p) == {b \in branches : b.project = p}

\* C1: every project has exactly one branch with isDefault = true, whatever branch
\* operations (createMain, create, protect/unprotect, delete) have been performed.
C1_ExactlyOneDefault ==
  \A p \in ProjectIds :
    projects[p] = "live" =>
      Cardinality({b \in ProjectBranches(p) : b.isDefault}) = 1

\* a branch was deleted and created again, main was unprotected, the updateMany is done
C1_Witness ==
  \E p \in ProjectIds :
    /\ projects[p] = "live"
    /\ pendingClear = {}
    /\ Cardinality(ProjectBranches(p)) = 2
    /\ branchSeq = 3
    /\ \E b \in ProjectBranches(p) : b.isDefault /\ ~b.isProtected

\* the live files of branch `name` are exactly the live files of `source`, one copy each,
\* with lastCommit cleared
ForkImage(F, p, name, source) ==
  LET src == LiveFiles(F, p, source)
      dst == LiveFiles(F, p, name)
  IN /\ \A f \in src :
          Cardinality({g \in dst : /\ g.path = f.path /\ g.name = f.name
                                   /\ g.content = f.content /\ g.lastCommit = Null}) = 1
     /\ \A g \in dst :
          \E f \in src : g.path = f.path /\ g.name = f.name /\ g.content = f.content

\* C2: when create-branch(newName, sourceName) succeeds, the live files of newName are
\* exactly one copy of each live file of sourceName (same path, name, content, lastCommit
\* null) and nothing else.
C2_ForkCopiesLiveFiles ==
  [][\A p \in ProjectIds, name \in BranchNames, source \in BranchNames :
       (CreateBranchStatus(p, name, source) = 201 /\ CreateBranch(p, name, source))
         => ForkImage(files', p, name, source)]_vars

\* C3: a write-file or delete-file on one branch leaves every File record of every
\* other branch unchanged, and every read on another branch returns what it returned.
C3_WritesStayOnBranch ==
  [][\A p \in ProjectIds, b \in BranchNames, fp \in FilePaths :
       (\/ \E c \in Contents : PutFile(p, b, fp, c, FreshHash)
        \/ DeleteFile(p, b, fp, FreshHash))
         => /\ \A f \in files : f.branch # b => f \in files'
            /\ \A f \in files' : f.branch # b => f \in files
            /\ \A o \in BranchNames \ {b}, q \in FilePaths :
                 GetContent(files', p, o, q) = GetContent(files, p, o, q)]_vars

\* feature was forked from main and the two now hold different bodies at one path
C3_Witness ==
  \E m \in branches, br \in branches, f \in files, g \in files :
    /\ m.name = "main" /\ br.name = "feature" /\ br.parentBranch = m.id
    /\ f.branch = "main" /\ g.branch = "feature"
    /\ ~f.isDeleted /\ ~g.isDeleted
    /\ f.path = g.path /\ f.name = g.name /\ f.content # g.content
    /\ g.lastCommit # Null

\* C4: after a successful delete-file the File record remains with isDeleted = true and
\* its content, list-tree no longer returns it, read-file of the path yields NotFound,
\* and the commit with action 'deleted' is in the branch history.
C4_DeleteFileHides ==
  [][\A p \in ProjectIds, b \in BranchNames, fp \in FilePaths :
       (DeleteFileStatus(p, b, fp, FreshHash) = 200 /\ DeleteFile(p, b, fp, FreshHash))
         => LET file == FindLiveFile(files, p, b, fp)
                h == History(commits', p, b)
            IN /\ \E g \in files' : /\ g.id = file.id /\ g.isDeleted
                                    /\ g.content = file.content
               /\ \A t \in GetTree(files', p, b, ParsePath(fp).path) : t.id # file.id
               /\ ~Found(GetContent(files', p, b, fp))
               /\ \E i \in 1..Len(h) : /\ h[i] \notin commits
                                       /\ h[i].changes[1].action = "deleted"
                                       /\ h[i].changes[1].file = file.id]_vars

\* C5: getNextIssueNumber never returns a number it has already returned for the project.
C5_NumberNeverReturnedTwice ==
  [][\A r \in Requests, p \in ProjectIds :
       AllocateIssueNumber(r, p) => getNextIssueNumber(issues, p) \notin allocated[p]]_vars

\* C6: no two distinct commits of one project have the same hash.
C6_HashesUnique ==
  \A c \in commits, d \in commits :
    (c.project = d.project /\ c.hash = d.hash) => c.id = d.id

\* several commits are stored and a save with a colliding digest was rejected
C6_Witness ==
  /\ Cardinality(commits) >= 3
  /\ \E f \in files : f.lastCommit = Null

\* the hash starts with the prefix, letters compared without case
StartsWith(hash, prefix) ==
  /\ Len(prefix) <= Len(hash)
  /\ \A i \in 1..Len(prefix) : Lower(prefix[i]) = Lower(hash[i])

\* C7: get-commit by prefix answers a commit only when exactly one commit of the project
\* has a hash starting with the prefix, Ambiguous when several have, NotFound when none.
C7_PrefixLookup ==
  \A p \in ProjectIds, pat \in HashPatterns :
    (projects[p] = "live" /\ Len(pat) >= MinHashLen /\ Len(pat) <= MaxHashLen) =>
      LET matching == {c \in commits : c.project = p /\ StartsWith(c.hash, pat)}
          r == GetCommit(p, pat)
      IN /\ r.status = 200 => (Cardinality(matching) = 1 /\ r.commit \in matching)
         /\ Cardinality(matching) > 1 => r.status \notin {200, 404}
         /\ matching = {} => r.status = 404

\* C8: a successful write-file(path, c) followed at once by read-file(path) on the same
\* branch returns a File with content c, whether or not a live file existed before.
C8_WriteThenRead ==
  [][\A p \in ProjectIds, b \in BranchNames, fp \in FilePaths, c \in Contents :
       (PutFileStatus(p, FreshHash) = 200 /\ PutFile(p, b, fp, c, FreshHash))
         => /\ Found(GetContent(files', p, b, fp))
            /\ GetContent(files', p, b, fp).content = c]_vars

\* a path was written after its file had been deleted, and a live file was overwritten
C8_Witness ==
  /\ \E f \in files, g \in files :
       /\ f.isDeleted /\ ~g.isDeleted /\ f.branch = g.branch
       /\ fullPath(f) = fullPath(g) /\ f.content # g.content /\ g.lastCommit # Null
  /\ \E c \in commits : c.changes[1].action = "modified"

C10_Divergence ==
  \A m \in branches, br \in branches :
    ( /\ m.name = "main" /\ br.name = "feature"
      /\ m.project = br.project /\ br.parentBranch = m.id
      /\ LiveFiles(files, m.project, "main") # {}
      /\ Cardinality(BranchCommits(commits, br.project, "feature")) = 1
      /\ \A c \in BranchCommits(commits, br.project, "feature") :
           c.createdAt >= br.createdAt /\ c.message = "update"
      /\ \A c \in BranchCommits(commits, m.project, "main") : c.createdAt < br.createdAt )
    => /\ calculateDifference(br, "main", commits).commitsAhead = 1
       /\ calculateDifference(br, "main", commits).commitsBehind = 0
       /\ calculateDifference(m, "feature", commits).commitsAhead = 0
       /\ calculateDifference(m, "feature", commits).commitsBehind = 1

\* C11: delete-branch answers InvalidOperation (400) when the branch is the default branch
\* or is protected, NotFound (404) when there is no such branch, and leaves the branches
\* as they were in both cases; it removes the branch, and only it, when the branch exists
\* and is neither default nor protected.
C11_DeleteBranchErrors ==
  [][\A p \in ProjectIds, name \in BranchNames :
       (projects[p] = "live" /\ DeleteBranch(p, name))
         => LET br == FindBranch(branches, p, name)
            IN /\ ~Found(br)
                    => DeleteBranchStatus(p, name) = 404 /\ branches' = branches
               /\ (Found(br) /\ (br.isDefault \/ br.isProtected))
                    => DeleteBranchStatus(p, name) = 400 /\ branches' = branches
               /\ (Found(br) /\ ~br.isDefault /\ ~br.isProtected)
                    => /\ DeleteBranchStatus(p, name) = 200
                       /\ branches' = branches \ {br}]_vars

\* a branch was deleted before, and a protected branch that is not the default one exists
C11_Witness ==
  /\ branchSeq = 3
  /\ \E b \in branches : ~b.isDefault /\ b.isProtected

\* C12: at most one non-deleted File record exists for each (project, branch, path, name),
\* whatever writes, deletes, branch creations and branch deletions have been performed.
C12_OneLiveFilePerPath ==
  \A f \in files, g \in files :
    ( /\ ~f.isDeleted /\ ~g.isDeleted
      /\ f.project = g.project /\ f.branch = g.branch
      /\ f.path = g.path /\ f.name = g.name ) => f.id = g.id

\* C13: the commit ledger is append-only: every step of a write-file, delete-file,
\* create-branch, protect-branch or delete-branch keeps every recorded commit with all
\* of its fields, so the set of commits only grows.
C13_LedgerAppendOnly ==
  [][\A c \in commits : c \in commits']_vars

\* branch feature was created and deleted, and the commits recorded on it are still stored
C13_Witness ==
  /\ branchSeq >= 2
  /\ Cardinality(commits) >= 3
  /\ \E c \in commits :
       c.branch = "feature" /\ ~Found(FindBranch(branches, c.project, "feature"))

C15_CreateBranchErrors ==
  [][\A p \in ProjectIds, name \in BranchNames, source \in BranchNames :
       (projects[p] = "live" /\ CreateBranch(p, name, source))
         => /\ Found(FindBranch(branches, p, name))
                 => /\ CreateBranchStatus(p, name, source) = 400
                    /\ branches' = branches /\ files' = files
            /\ (~Found(FindBranch(branches, p, name))
                  /\ ~Found(FindBranch(branches, p, source)))
                 => /\ CreateBranchStatus(p, name, source) = 404
                    /\ branches' = branches /\ files' = files]_vars

\* both branches exist with live files (a second create of either name is a Conflict),
\* after a branch had been deleted (a fork from it was NotFound)
C15_Witness ==
  /\ Cardinality(branches) = 2
  /\ branchSeq = 3
  /\ \E f \in files, g \in files :
       f.branch = "main" /\ g.branch = "feature" /\ ~f.isDeleted /\ ~g.isDeleted

\* C16: after delete-project(P) has succeeded no Branch, File or Commit record owned by P
\* remains in the store.
C16_DeleteProjectCascades ==
  \A p \in ProjectIds :
    projects[p] = "deleted" =>
      /\ \A b \in branches : b.project # p
      /\ \A f \in files : f.project # p
      /\ \A c \in commits : c.project # p

C18_DeleteBranchKeepsFiles ==
  [][\A p \in ProjectIds, name \in BranchNames :
       (DeleteBranchStatus(p, name) = 200 /\ DeleteBranch(p, name))
         => /\ files' = files
            /\ commits' = commits
            /\ branches' = branches \ {FindBranch(branches, p, name)}]_vars

\* branch feature was created and deleted; a live File and a Commit keyed by it remain
C18_Witness ==
  /\ branchSeq >= 2
  /\ \A b \in branches : b.name # "feature"
  /\ \E f \in files : f.branch = "feature" /\ ~f.isDeleted /\ f.lastCommit # Null
  /\ \E c \in commits : c.branch = "feature"

\* C19: delete-file on a path with no live File answers an error, records no commit and
\* changes no File record; in particular a second delete of the path right after a
\* successful delete fails, i.e. a successful delete leaves no live File at the path.
C19_DeleteMissingFileFails ==
  [][\A p \in ProjectIds, b \in BranchNames, fp \in FilePaths :
       (projects[p] = "live" /\ DeleteFile(p, b, fp, FreshHash))
         => /\ ~Found(FindLiveFile(files, p, b, fp))
                 => /\ DeleteFileStatus(p, b, fp, FreshHash) = 404
                    /\ files' = files /\ commits' = commits
            /\ DeleteFileStatus(p, b, fp, FreshHash) = 200
                 => ~Found(FindLiveFile(files', p, b, fp))]_vars

\* C20: a commit is saved strictly after the file save it describes: whenever a write-file
\* or delete-file adds a commit, the File record it names is already in the store with
\* the mutation applied; and when the commit save fails after the file save, the request
\* answers an error, the file mutation stays applied and no commit is recorded.
C20_CommitAfterFileSave ==
  [][/\ \A c \in commits' \ commits :
          c.message # "Initial commit" =>
            \E g \in files :
               /\ g.id = c.changes[1].file
               /\ fullPath(g) = c.changes[1].filePath
               /\ (c.changes[1].action = "deleted" => g.isDeleted)
     /\ \A r \in Requests, h \in LedgerHashes :
          (HashTaken(commits, h) /\ SaveCommit(r, h))
            => /\ SaveCommitStatus(r, h) = 500
               /\ req'[r].pc = "idle"
               /\ commits' = commits
               /\ files' = files
               /\ \E g \in files :
                    /\ g.id = req[r].file
                    /\ fullPath(g) = req[r].fp
                    /\ (req[r].kind = "delete" => g.isDeleted)]_vars

\* a commit save was rejected after the file save (a live File without a commit), and
\* another request has saved its file and is about to save its commit
C20_Witness ==
  /\ \E r \in Requests :
       /\ req[r].pc = "commit" /\ req[r].kind = "delete"
       /\ \A o \in Requests \ {r} : req[o].pc = "idle"
  /\ \E f \in files : ~f.isDeleted /\ f.lastCommit = Null /\ fullPath(f) = <<"src", "a.js">>
  /\ Cardinality(commits) >= 2

\* C21: when the digest generated for a new commit collides with a stored one, recording
\* is retried with a fresh digest, so a write-file or delete-file whose file mutation was
\* applied still ends with exactly one new commit recorded.
C21_CollisionRetried ==
  [][\A p \in ProjectIds, fp \in FilePaths, h \in LedgerHashes :
       ( /\ \/ PutFile(p, "main", fp, MoreContent, h)
            \/ DeleteFile(p, "main", fp, h)
         /\ files' # files )
         => Cardinality(commits' \ commits) = 1]_vars

\* C22: when two write-file requests for one (project, branch, path, name) without a
\* live File run concurrently, then once both have completed exactly one non-deleted
\* File record exists for that key.
C22_ConcurrentCreateOneFile ==
  (\A r \in Requests : req[r].pc = "idle")
    => \A p \in ProjectIds, fp \in FilePaths :
         Cardinality({f \in LiveFiles(files, p, "main") : fullPath(f) = fp}) <= 1

C24_UpdateStatsMatchesLedger ==
  [][\A p \in ProjectIds, name \in BranchNames, source \in BranchNames :
       ( \/ CreateBranch(p, name, source) /\ CreateBranchStatus(p, name, source) = 201
         \/ CreateProject(p, FreshHash) /\ name = "main" )
       => \A br \in branches' \ branches :
            LET mine == BranchCommits(commits', p, name)
            IN /\ br.project = p /\ br.name = name
               /\ br.totalCommits = Cardinality(mine)
               /\ mine # {} =>
                    \E c \in mine : /\ \A d \in mine : c.createdAt >= d.createdAt
                                    /\ br.lastActivity = c.createdAt
                                    /\ br.lastCommit = c.id]_vars

\* a branch made by create-branch whose refreshed statistics count commits
C24_Witness ==
  \E br \in branches : /\ br.parentBranch # Null /\ br.totalCommits >= 1
                       /\ br.lastCommit # Null

====
